---- MODULE Spec2Model ----
(***************************************************************************)
(* A model of pvrcnn/detector/backbone.py: the voxel feature extractor,    *)
(* the layer topology of SparseCNN, and its two numeric utilities          *)
(* (to_global and pad_batch / compute_pad_amounts).                        *)
(*                                                                         *)
(* Conventions.                                                            *)
(*  - Tensors are sequences (1-based); a tensor of shape (N, K, C) is a    *)
(*    sequence of N sequences of K sequences of C numbers.  Python's       *)
(*    0-based sample number b is kept as a value; slice b of a stacked     *)
(*    result is element b + 1 of the sequence.                             *)
(*  - Metric quantities (cfg.VOXEL_SIZE, cfg.GRID_BOUNDS) are integers in  *)
(*    a fixed unit (centimetres), so products and sums are exact.  A       *)
(*    quotient is kept as an exact fraction [num, den]; float rounding is  *)
(*    not modelled.                                                        *)
(*  - A call that raises is the outcome Err; a call that returns v is      *)
(*    Ok(v).  torch.randint makes random_choice nondeterministic: the      *)
(*    operators that use it yield the set of all possible outcomes.        *)
(*  - volume.indices are batch-major (sorted by sample number), as the     *)
(*    collated voxel coordinates and spconv's outputs are, and as          *)
(*    searchsorted requires.                                               *)
(***************************************************************************)
EXTENDS Integers, Sequences, FiniteSets, TLC

VARIABLES
    cfg,    \* the configuration object handed to SparseCNN.__init__
    inp,    \* the arguments of the call under study
    pc,     \* position: which call has been made / which step of forward is next
    xs,     \* forward: the volumes x0, x1, ... computed so far
    outs,   \* forward: the to_global results computed so far
    ret     \* the call's outcome

vars == <<cfg, inp, pc, xs, outs, ret>>

\* ------------------------------------------------------------------ bounds

\* largest number of rows of the tensor handed to pad_batch
MaxRows == 5
\* largest batch_size
MaxBatch == 3
\* K: point slots per voxel of the feature tensor
MaxPoints == 2
\* largest number of active voxels of the volume handed to to_global
MaxActive == 5
\* largest number of voxel coordinates handed to SparseCNN.forward
MaxCoordinates == 2

\* ----------------------------------------------------------------- helpers

Ok(v) == [ok |-> TRUE, val |-> v]
Err == [ok |-> FALSE, val |-> <<>>]

Range(s) == {s[i] : i \in DOMAIN s}

Max(s) == CHOOSE m \in Range(s) : \A v \in Range(s) : v <= m

RECURSIVE SumSeq(_)
SumSeq(s) == IF s = <<>> THEN 0 ELSE Head(s) + SumSeq(Tail(s))

IsSorted(s) == \A i \in 1..(Len(s) - 1) : s[i] <= s[i + 1]

\* All sequences <<c_1, ..., c_n>> with c_b \in sets[b]: the independent draws.
RECURSIVE Product(_)
Product(sets) ==
    IF sets = <<>> THEN {<<>>}
    ELSE {<<h>> \o t : h \in Head(sets), t \in Product(Tail(sets))}

\* -------------------------------------------------- random_choice, padding

\* Faulty variant of random_choice: the padding rows are zero rows.
random_choice_zeros(x, n) ==
    IF Len(x) = 0 THEN Err
    ELSE Ok({[i \in 1..n |-> 0]})

\* torch.randint(0, x.size(0), (n,)) raises when x has no rows; otherwise
\* every index vector in [0, size)^n is possible and the result is x[inds].
random_choice(x, n) ==
    IF Len(x) = 0 THEN Err
    ELSE Ok({[i \in 1..n |-> x[inds[i]]] : inds \in [1..n -> 1..Len(x)]})

\* torchsearchsorted.searchsorted(a, v), side left, one row: for each v[j]
\* the 0-based position of the first element of the sorted a that is >= v[j].
searchsorted(a, v) ==
    [j \in 1..Len(v) |-> Cardinality({i \in 1..Len(a) : a[i] < v[j]})]

\* Faulty variant of compute_pad_amounts: pads up to the first sample's count.
compute_pad_amounts_from_first(batch_index, batch_size) ==
    LET helper_index == [j \in 1..(batch_size + 1) |-> j - 1]
        start_index == searchsorted(batch_index, helper_index)
        batch_count == [b \in 1..batch_size |-> start_index[b + 1] - start_index[b]]
        pad == [b \in 1..batch_size |-> batch_count[1] - batch_count[b]]
    IN  <<batch_count, pad>>

\* compute_pad_amounts(batch_index, batch_size): (batch_count, pad).
compute_pad_amounts(batch_index, batch_size) ==
    LET helper_index == [j \in 1..(batch_size + 1) |-> j - 1]
        start_index == searchsorted(batch_index, helper_index)
        batch_count == [b \in 1..batch_size |-> start_index[b + 1] - start_index[b]]
        pad == [b \in 1..batch_size |-> Max(batch_count) - batch_count[b]]
    IN  <<batch_count, pad>>

\* x.split(batch_count): consecutive chunks of the given sizes; raises unless
\* the sizes are non-negative and add up to the number of rows.
split(x, sizes) ==
    IF (\E b \in DOMAIN sizes : sizes[b] < 0) \/ SumSeq(sizes) # Len(x) THEN Err
    ELSE Ok([b \in DOMAIN sizes |->
                LET start == SumSeq(SubSeq(sizes, 1, b - 1))
                IN  SubSeq(x, start + 1, start + sizes[b])])

\* The set of outcomes of pad_batch(x, batch_index, batch_size).
pad_batch(x, batch_index, batch_size) ==
    IF batch_size = 1 THEN {Ok(<<x>>)}
    ELSE
        LET cp == compute_pad_amounts(batch_index, batch_size)
            batch_count == cp[1]
            pad == cp[2]
            chunks == split(x, batch_count)
        IN  IF ~chunks.ok THEN {Err}
            ELSE
                LET pad_values ==
                        [b \in 1..batch_size |-> random_choice(chunks.val[b], pad[b])]
                IN  IF \E b \in 1..batch_size : ~pad_values[b].ok THEN {Err}
                    ELSE {Ok([b \in 1..batch_size |-> chunks.val[b] \o p[b]]) :
                            p \in Product([b \in 1..batch_size |-> pad_values[b].val])}

\* ------------------------------------------------------------------ to_global

\* torch.flip(t, (1,)) on one row: the columns in reverse order.
flip(row) == [a \in 1..Len(row) |-> row[Len(row) + 1 - a]]

\* Faulty variant of to_global: the index columns are not reversed.
to_global_unflipped(stride, volume) ==
    LET index == volume.indices
        voxel_size == [a \in 1..3 |-> cfg.VOXEL_SIZE[a] * stride]
        voxel_offset == SubSeq(cfg.GRID_BOUNDS, 1, 3)
        xyz == [i \in DOMAIN index |->
                   [a \in 1..3 |-> index[i][a + 1] * voxel_size[a] + voxel_offset[a]]]
        batch_index == [i \in DOMAIN index |-> index[i][1]]
        xyzs == pad_batch(xyz, batch_index, volume.batch_size)
        features == pad_batch(volume.features, batch_index, volume.batch_size)
    IN  IF Err \in xyzs \/ Err \in features THEN {Err}
        ELSE {Ok([xyz |-> p.val, feature |-> f.val]) : p \in xyzs, f \in features}

\* The set of outcomes of SparseCNN.to_global(stride, volume).  The two
\* pad_batch calls draw their padding rows independently.
to_global(stride, volume) ==
    LET index == [i \in DOMAIN volume.indices |-> flip(volume.indices[i])]
        voxel_size == [a \in 1..3 |-> cfg.VOXEL_SIZE[a] * stride]
        voxel_offset == SubSeq(cfg.GRID_BOUNDS, 1, 3)
        xyz == [i \in DOMAIN index |->
                   [a \in 1..3 |-> index[i][a] * voxel_size[a] + voxel_offset[a]]]
        batch_index == [i \in DOMAIN index |-> index[i][Len(index[i])]]
        xyzs == pad_batch(xyz, batch_index, volume.batch_size)
        features == pad_batch(volume.features, batch_index, volume.batch_size)
    IN  IF Err \in xyzs \/ Err \in features THEN {Err}
        ELSE {Ok([xyz |-> p.val, feature |-> f.val]) : p \in xyzs, f \in features}

\* ------------------------------------------------------------- pad_batch spec

\* Sorted batch_index vectors with values in [0, batch_size).
BatchIndices(n, batch_size) ==
    {s \in [1..n -> 0..(batch_size - 1)] : IsSorted(s)}

NoCfg == [VOXEL_SIZE |-> <<>>, GRID_BOUNDS |-> <<>>, STRIDES |-> <<>>, C_IN |-> 0]

\* x has one row per entry of batch_index, and at least one row; row i is
\* named by its position i.
InitPad ==
    /\ cfg = NoCfg
    /\ \E batch_size \in 1..MaxBatch, n \in 1..MaxRows :
         \E batch_index \in BatchIndices(n, batch_size) :
           inp = [x |-> [i \in 1..n |-> i],
                  batch_index |-> batch_index,
                  batch_size |-> batch_size]
    /\ pc = "ready"
    /\ xs = <<>>
    /\ outs = <<>>
    /\ ret = Err

CallComputePadAmounts ==
    /\ pc = "ready"
    /\ ret' = Ok(compute_pad_amounts(inp.batch_index, inp.batch_size))
    /\ pc' = "compute_pad_amounts"
    /\ UNCHANGED <<cfg, inp, xs, outs>>

CallPadBatch ==
    /\ pc = "ready"
    /\ \E r \in pad_batch(inp.x, inp.batch_index, inp.batch_size) : ret' = r
    /\ pc' = "pad_batch"
    /\ UNCHANGED <<cfg, inp, xs, outs>>

NextPad == CallComputePadAmounts \/ CallPadBatch

SpecPad == InitPad /\ [][NextPad]_vars

\* ---------------------------------------------------------- pad_batch claims

\* Number of entries of batch_index that equal b.
CountIn(batch_index, b) ==
    Cardinality({i \in DOMAIN batch_index : batch_index[i] = b})

\* The rows of x that belong to sample b, in their original order.
RowsIn(x, batch_index, b) ==
    LET idx == {i \in DOMAIN batch_index : batch_index[i] = b}
    IN  [k \in 1..Cardinality(idx) |->
            x[CHOOSE i \in idx : Cardinality({j \in idx : j < i}) = k - 1]]

\* r is a dense minibatch of x: batch_size slices of length M = the largest
\* per-sample count, each with its own rows first, in order, and then only
\* copies of rows of the same sample.
DenseMinibatchOf(r, x, batch_index, batch_size) ==
    LET M == CHOOSE m \in {CountIn(batch_index, b) : b \in 0..(batch_size - 1)} :
                \A b \in 0..(batch_size - 1) : CountIn(batch_index, b) <= m
    IN  /\ Len(r) = batch_size
        /\ \A b \in 0..(batch_size - 1) :
             /\ Len(r[b + 1]) = M
             /\ SubSeq(r[b + 1], 1, CountIn(batch_index, b)) = RowsIn(x, batch_index, b)
             /\ \A j \in (CountIn(batch_index, b) + 1)..M :
                  r[b + 1][j] \in Range(RowsIn(x, batch_index, b))

Samples == 0..(inp.batch_size - 1)

Count(b) == CountIn(inp.batch_index, b)

LargestCount == CHOOSE m \in {Count(b) : b \in Samples} : \A b \in Samples : Count(b) <= m

PadBatchPre ==
    /\ pc = "pad_batch"
    /\ inp.batch_size >= 2
    /\ IsSorted(inp.batch_index)
    /\ \A i \in DOMAIN inp.batch_index : inp.batch_index[i] \in Samples

IsDenseMinibatch(r) == DenseMinibatchOf(r, inp.x, inp.batch_index, inp.batch_size)

\* C2 as stated: for batch_size >= 2 and a sorted, in-range batch_index,
\* pad_batch returns batch_size slices of length M = the largest per-sample
\* count; slice b starts with the rows of sample b in order, and every
\* further row is a copy of a row of sample b.
C2_AsStated == PadBatchPre => (ret.ok /\ IsDenseMinibatch(ret.val))

\* C2 amended: the same, provided every sample has at least one row.
C2_PadBatchDense ==
    (PadBatchPre /\ \A b \in Samples : Count(b) >= 1)
        => (ret.ok /\ IsDenseMinibatch(ret.val))

\* A call where a sample with two rows of its own received a padding row.
C2_Witness ==
    /\ PadBatchPre
    /\ ret.ok
    /\ \E b \in Samples : Count(b) = 2 /\ LargestCount > 2
    /\ \A b \in Samples : Count(b) >= 1

\* C6: for a sorted, in-range batch_index, compute_pad_amounts returns
\* batch_count[b] = the number of entries equal to b, the counts add up to
\* the length of batch_index, pad[b] = max(batch_count) - batch_count[b] >= 0,
\* so batch_count[b] + pad[b] is the same for every b and some pad is 0.
C6_PadAmounts ==
    (pc = "compute_pad_amounts" /\ IsSorted(inp.batch_index)) =>
        LET batch_count == ret.val[1]
            pad == ret.val[2]
        IN  /\ Len(batch_count) = inp.batch_size
            /\ Len(pad) = inp.batch_size
            /\ \A b \in Samples : batch_count[b + 1] = Count(b)
            /\ SumSeq(batch_count) = Len(inp.batch_index)
            /\ \A b \in Samples :
                 /\ pad[b + 1] >= 0
                 /\ pad[b + 1] = LargestCount - batch_count[b + 1]
                 /\ batch_count[b + 1] + pad[b + 1] = batch_count[1] + pad[1]
            /\ \E b \in Samples : pad[b + 1] = 0

\* A call whose samples have different sizes, one of them empty.
C6_Witness ==
    /\ pc = "compute_pad_amounts"
    /\ inp.batch_size = 3
    /\ ret.val[1] = <<2, 0, 1>>
    /\ ret.val[2] = <<0, 2, 1>>

\* ------------------------------------------------------------- to_global spec

\* Configurations: VOXEL_SIZE (x, y, z) and GRID_BOUNDS (x, y, z minima, then
\* maxima) in centimetres, the strides paired with x0..x3, the input channels.
Cfgs ==
    { [VOXEL_SIZE |-> <<5, 5, 10>>,
       GRID_BOUNDS |-> <<0, -3200, -300, 8000, 3200, 100>>,
       STRIDES |-> <<1, 2, 4, 8>>,
       C_IN |-> 4],
      [VOXEL_SIZE |-> <<10, 20, 40>>,
       GRID_BOUNDS |-> <<-700, 400, -200, 900, 3600, 1440>>,
       STRIDES |-> <<1, 2, 4, 8, 8>>,
       C_IN |-> 4] }

\* Candidate voxel positions (z, y, x) and the strides tried.
Voxels == {<<0, 0, 0>>, <<1, 2, 3>>, <<2, 0, 1>>}
Strides == {1, 2, 3, 4, 8}

\* The row sequences one sample can contribute: its sample number b followed
\* by a voxel position, no voxel twice, in any order.
SampleRows(b, voxels) ==
    UNION {{[i \in 1..k |-> <<b>> \o f[i]] :
              f \in {g \in [1..k -> voxels] : \A i, j \in 1..k : i # j => g[i] # g[j]}} :
           k \in 0..Cardinality(voxels)}

RECURSIVE Concat(_)
Concat(ss) == IF ss = <<>> THEN <<>> ELSE Head(ss) \o Concat(Tail(ss))

\* Index tensors of 1..maxn rows (b, z, y, x): batch-major, no voxel twice.
IndexTensors(maxn, batch_size, voxels) ==
    {t \in {Concat(p) : p \in Product([b \in 1..batch_size |-> SampleRows(b - 1, voxels)])} :
        Len(t) \in 1..maxn}

\* Feature row i is named by its position i.
InitGlobal ==
    /\ cfg \in Cfgs
    /\ \E batch_size \in 1..MaxBatch, stride \in Strides :
         \E indices \in IndexTensors(MaxActive, batch_size, Voxels) :
           inp = [stride |-> stride,
                  volume |-> [indices |-> indices,
                              features |-> [i \in DOMAIN indices |-> i],
                              batch_size |-> batch_size]]
    /\ pc = "ready"
    /\ xs = <<>>
    /\ outs = <<>>
    /\ ret = Err

CallToGlobal ==
    /\ pc = "ready"
    /\ \E r \in to_global(inp.stride, inp.volume) : ret' = r
    /\ pc' = "to_global"
    /\ UNCHANGED <<cfg, inp, xs, outs>>

NextGlobal == CallToGlobal

SpecGlobal == InitGlobal /\ [][NextGlobal]_vars

\* The metric coordinate the claim gives for index row (b, z, y, x) at stride s.
Metric(row, s) ==
    <<row[4] * cfg.VOXEL_SIZE[1] * s + cfg.GRID_BOUNDS[1],
      row[3] * cfg.VOXEL_SIZE[2] * s + cfg.GRID_BOUNDS[2],
      row[2] * cfg.VOXEL_SIZE[3] * s + cfg.GRID_BOUNDS[3]>>

\* xyz is the padded coordinate tensor of volume at stride s: row i of the
\* volume sits in the slice of its sample, at its rank among that sample's
\* rows, and holds Metric; every row of a slice is Metric of a voxel of that
\* sample.
CoordinatesOf(xyz, volume, s) ==
    LET idx == volume.indices
        Rank(i) == Cardinality({j \in 1..i : idx[j][1] = idx[i][1]})
    IN  /\ Len(xyz) = volume.batch_size
        /\ \A i \in DOMAIN idx :
             /\ Rank(i) \in DOMAIN xyz[idx[i][1] + 1]
             /\ xyz[idx[i][1] + 1][Rank(i)] = Metric(idx[i], s)
        /\ \A b \in DOMAIN xyz : \A j \in DOMAIN xyz[b] :
             \E i \in DOMAIN idx : idx[i][1] = b - 1 /\ xyz[b][j] = Metric(idx[i], s)

\* C1: whenever to_global returns, the coordinate of every active voxel
\* (b, z, y, x) at stride s is (x*vx*s + ox, y*vy*s + oy, z*vz*s + oz); b only
\* selects the slice and is no part of any coordinate.
C1_ToGlobalMetric ==
    (pc = "to_global" /\ ret.ok) =>
        CoordinatesOf(ret.val.xyz, inp.volume, inp.stride)

\* A returned call on two samples, one of them padded, at stride 4, with a
\* voxel whose z, y, x differ and a configuration whose axes differ.
C1_Witness ==
    /\ pc = "to_global"
    /\ ret.ok
    /\ inp.stride = 4
    /\ inp.volume.batch_size = 2
    /\ cfg.VOXEL_SIZE = <<10, 20, 40>>
    /\ Len(inp.volume.indices) = 5
    /\ inp.volume.indices[4] = <<1, 1, 2, 3>>
    /\ inp.volume.indices[5] = <<1, 0, 0, 0>>
    /\ ret.val.xyz[2] = <<<<-580, 560, -40>>, <<-700, 400, -200>>, <<-580, 560, -40>>>>

\* ------------------------------------------------------ VoxelFeatureExtractor

RECURSIVE GCD(_, _)
GCD(a, b) == IF b = 0 THEN a ELSE GCD(b, a % b)

\* The quotient a / n of a >= 0 by n >= 0 as a fraction in lowest terms; a
\* zero denominator stands for the float inf or nan.
Quotient(a, n) ==
    IF n = 0 THEN [num |-> a, den |-> 0]
    ELSE [num |-> a \div GCD(a, n), den |-> n \div GCD(a, n)]

\* Faulty variant of VoxelFeatureExtractor.forward: the mean over all K slots.
VoxelFeatureExtractor_forward_mean(feature, occupancy) ==
    [v \in DOMAIN feature |->
        [c \in DOMAIN feature[v][1] |->
            Quotient(SumSeq([k \in DOMAIN feature[v] |-> feature[v][k][c]]),
                     Len(feature[v]))]]

\* VoxelFeatureExtractor.forward(feature, occupancy): feature of shape
\* (N, K, C), occupancy of shape (N,); the result has shape (N, C).
VoxelFeatureExtractor_forward(feature, occupancy) ==
    LET denominator == occupancy
        sum1 == [v \in DOMAIN feature |->
                    [c \in DOMAIN feature[v][1] |->
                        SumSeq([k \in DOMAIN feature[v] |-> feature[v][k][c]])]]
    IN  [v \in DOMAIN feature |->
            [c \in DOMAIN sum1[v] |-> Quotient(sum1[v][c], denominator[v])]]

\* Voxel counts, channel numbers and point values of the feature tensors tried.
VoxelCounts == {1, 2}
Channels == {1, 2}
PointVals == {0, 1}

InitVFE ==
    /\ cfg = NoCfg
    /\ \E N \in VoxelCounts, K \in 1..MaxPoints :
         \E feature \in [1..N -> [1..K -> [Channels -> PointVals]]],
            occupancy \in [1..N -> 0..K] :
           inp = [feature |-> feature, occupancy |-> occupancy]
    /\ pc = "ready"
    /\ xs = <<>>
    /\ outs = <<>>
    /\ ret = Err

CallVoxelFeatureExtractor ==
    /\ pc = "ready"
    /\ ret' = Ok(VoxelFeatureExtractor_forward(inp.feature, inp.occupancy))
    /\ pc' = "vfe"
    /\ UNCHANGED <<cfg, inp, xs, outs>>

NextVFE == CallVoxelFeatureExtractor

SpecVFE == InitVFE /\ [][NextVFE]_vars

\* The point slots of voxel v beyond its occupancy hold zeros.
UnusedSlotsZero(v) ==
    \A k \in (inp.occupancy[v] + 1)..Len(inp.feature[v]) :
        \A c \in DOMAIN inp.feature[v][k] : inp.feature[v][k][c] = 0

\* C5: the output has shape (N, C), and for every voxel v with occupancy
\* n >= 1 whose unused slots are zero, output[v][c] * n is the sum of channel
\* c over the n occupied points.
C5_VoxelMean ==
    pc = "vfe" =>
        /\ Len(ret.val) = Len(inp.feature)
        /\ \A v \in DOMAIN inp.feature :
             /\ DOMAIN ret.val[v] = Channels
             /\ (inp.occupancy[v] >= 1 /\ UnusedSlotsZero(v)) =>
                  \A c \in Channels :
                     LET n == inp.occupancy[v]
                         total == SumSeq([k \in 1..n |-> inp.feature[v][k][c]])
                         out == ret.val[v][c]
                     IN  out.den >= 1 /\ out.num * n = total * out.den

\* Two voxels: one full, one with a single occupied point and a zero slot.
C5_Witness ==
    /\ pc = "vfe"
    /\ Len(inp.feature) = 2
    /\ inp.feature[1] = <<<<1, 0>>, <<1, 1>>>>
    /\ inp.occupancy = <<2, 1>>
    /\ inp.feature[2] = <<<<1, 1>>, <<0, 0>>>>
    /\ ret.val[1] = <<[num |-> 1, den |-> 1], [num |-> 1, den |-> 2]>>
    /\ ret.val[2] = <<[num |-> 1, den |-> 1], [num |-> 1, den |-> 1]>>

\* ------------------------------------------------------ SparseCNN: the layers

\* make_subm_layer(C_in, C_out, 3, ...): SubMConv3d(C_in, C_out, 3, 3, ...);
\* the second 3 lands on the stride parameter.
make_subm_layer(C_in, C_out) ==
    [subm |-> TRUE, C_in |-> C_in, C_out |-> C_out,
     kernel_size |-> <<3, 3, 3>>, stride |-> <<3, 3, 3>>, padding |-> <<0, 0, 0>>]

\* make_sparse_conv_layer(C_in, C_out, kernel_size, stride, padding=...):
\* SparseConv3d with per-axis (z, y, x) kernel size, stride and padding.
make_sparse_conv_layer(C_in, C_out, kernel_size, stride, padding) ==
    [subm |-> FALSE, C_in |-> C_in, C_out |-> C_out,
     kernel_size |-> kernel_size, stride |-> stride, padding |-> padding]

block1 ==
    << make_subm_layer(cfg.C_IN, 16),
       make_subm_layer(16, 16),
       make_sparse_conv_layer(16, 32, <<3, 3, 3>>, <<2, 2, 2>>, <<1, 1, 1>>) >>

block2 ==
    << make_subm_layer(32, 32),
       make_subm_layer(32, 32),
       make_sparse_conv_layer(32, 64, <<3, 3, 3>>, <<2, 2, 2>>, <<1, 1, 1>>) >>

\* Faulty variant of block3: padding 1 on every axis.
block3_padded ==
    << make_subm_layer(64, 64),
       make_subm_layer(64, 64),
       make_subm_layer(64, 64),
       make_sparse_conv_layer(64, 64, <<3, 3, 3>>, <<2, 2, 2>>, <<1, 1, 1>>) >>

block3 ==
    << make_subm_layer(64, 64),
       make_subm_layer(64, 64),
       make_subm_layer(64, 64),
       make_sparse_conv_layer(64, 64, <<3, 3, 3>>, <<2, 2, 2>>, <<0, 1, 1>>) >>

block4 ==
    << make_subm_layer(64, 64),
       make_subm_layer(64, 64),
       make_subm_layer(64, 64),
       make_sparse_conv_layer(64, 64, <<3, 1, 1>>, <<2, 1, 1>>, <<0, 0, 0>>) >>

\* spconv's output size of one axis: floor((n + 2p - k) / s) + 1.
conv_output_size(n, k, s, p) == ((n + 2 * p - k) \div s) + 1

\* Rows (b, z, y, x) in lexicographic order.
RowLess(r, q) ==
    \E a \in 1..4 : r[a] < q[a] /\ \A c \in 1..(a - 1) : r[c] = q[c]

RECURSIVE SortRows(_)
SortRows(S) ==
    IF S = {} THEN <<>>
    ELSE LET m == CHOOSE r \in S : \A q \in S \ {r} : RowLess(r, q)
         IN  <<m>> \o SortRows(S \ {m})

\* The output positions of one axis whose kernel window holds input position i.
OutPositions(i, n_out, k, s, p) ==
    {o \in ((i + p - k) \div s)..((i + p) \div s) :
        /\ 0 <= o /\ o < n_out
        /\ o * s - p <= i /\ i <= o * s - p + k - 1}

\* One layer on a sparse tensor.  A submanifold convolution keeps the active
\* sites and the spatial shape; a sparse convolution activates every output
\* site whose window holds an active input site, and lists the sites in
\* order.  A channel mismatch raises.
conv3d(layer, x) ==
    IF x.channels # layer.C_in THEN Err
    ELSE IF layer.subm THEN Ok([x EXCEPT !.channels = layer.C_out])
    ELSE
        LET out_shape == [a \in 1..3 |->
                conv_output_size(x.spatial_shape[a], layer.kernel_size[a],
                                 layer.stride[a], layer.padding[a])]
            Outs(a, i) == OutPositions(i, out_shape[a], layer.kernel_size[a],
                                       layer.stride[a], layer.padding[a])
            sites == UNION {{<<r[1], z, y, w>> :
                               z \in Outs(1, r[2]), y \in Outs(2, r[3]), w \in Outs(3, r[4])} :
                            r \in Range(x.indices)}
            indices == SortRows(sites)
        IN  Ok([features |-> [i \in DOMAIN indices |-> i],
                indices |-> indices,
                spatial_shape |-> out_shape,
                batch_size |-> x.batch_size,
                channels |-> layer.C_out])

\* spconv.SparseSequential: the layers in order.
RECURSIVE SparseSequential(_, _)
SparseSequential(layers, x) ==
    IF layers = <<>> THEN Ok(x)
    ELSE LET y == conv3d(Head(layers), x)
         IN  IF y.ok THEN SparseSequential(Tail(layers), y.val) ELSE Err

\* spconv.SparseConvTensor(features, coordinates.int(), grid_shape, batch_size)
SparseConvTensor(features, coordinates, grid_shape, batch_size) ==
    [features |-> features,
     indices |-> coordinates,
     spatial_shape |-> grid_shape,
     batch_size |-> batch_size,
     channels |-> Len(features[1])]

\* ------------------------------------------------------- SparseCNN.forward

Min2(a, b) == IF a <= b THEN a ELSE b

\* Faulty variant of forward_args: the strides paired with x1..x4.
forward_args_shifted ==
    [k \in 1..Min2(Len(cfg.STRIDES), 4) |-> <<cfg.STRIDES[k], xs[k + 1]>>]

\* zip(self.cfg.STRIDES, (x0, x1, x2, x3)): the pairs handed to to_global, as
\* many as the shorter of the two.
forward_args ==
    [k \in 1..Min2(Len(cfg.STRIDES), 4) |-> <<cfg.STRIDES[k], xs[k]>>]

\* Grid shapes (z, y, x), feature widths and voxel positions tried.
GridShapes == {<<41, 1280, 1600>>, <<41, 1600, 1408>>, <<12, 25, 30>>}
FeatureWidths == {3, 4}
GridVoxels(grid_shape) ==
    {<<0, 0, 0>>, <<3, 16, 9>>,
     <<grid_shape[1] - 1, grid_shape[2] - 1, grid_shape[3] - 1>>}

\* Feature row i is named by its position i in each of its channels.
InitForward ==
    /\ cfg \in Cfgs
    /\ \E grid_shape \in GridShapes, batch_size \in 1..MaxBatch, C \in FeatureWidths :
         \E coordinates \in IndexTensors(MaxCoordinates, batch_size, GridVoxels(grid_shape)) :
           inp = [features |-> [i \in DOMAIN coordinates |-> [c \in 1..C |-> i]],
                  coordinates |-> coordinates,
                  batch_size |-> batch_size,
                  grid_shape |-> grid_shape]
    /\ pc = "x0"
    /\ xs = <<>>
    /\ outs = <<>>
    /\ ret = Err

\* x0 = spconv.SparseConvTensor(...)
MakeInput ==
    /\ pc = "x0"
    /\ xs' = <<SparseConvTensor(inp.features, inp.coordinates, inp.grid_shape,
                                inp.batch_size)>>
    /\ pc' = "block1"
    /\ UNCHANGED <<cfg, inp, outs, ret>>

\* x_k = self.block_k(x_{k-1}); an exception ends the call.
RunBlock(here, block, next) ==
    /\ pc = here
    /\ LET y == SparseSequential(block, xs[Len(xs)])
       IN  IF y.ok THEN xs' = Append(xs, y.val) /\ pc' = next
           ELSE xs' = xs /\ pc' = "raised"
    /\ UNCHANGED <<cfg, inp, outs, ret>>

RunBlock1 == RunBlock("block1", block1, "block2")
RunBlock2 == RunBlock("block2", block2, "block3")
RunBlock3 == RunBlock("block3", block3, "block4")
RunBlock4 == RunBlock("block4", block4, "to_global")

\* list(itertools.starmap(self.to_global, args)): one to_global per pair, in
\* order; an exception ends the call.
ToGlobalNext ==
    /\ pc = "to_global"
    /\ Len(outs) < Len(forward_args)
    /\ LET a == forward_args[Len(outs) + 1]
       IN  \E r \in to_global(a[1], a[2]) :
             IF r.ok THEN outs' = Append(outs, r.val) /\ pc' = pc
             ELSE outs' = outs /\ pc' = "raised"
    /\ UNCHANGED <<cfg, inp, xs, ret>>

\* return x, x4
Return ==
    /\ pc = "to_global"
    /\ Len(outs) = Len(forward_args)
    /\ ret' = Ok([x |-> outs, x4 |-> xs[5]])
    /\ pc' = "done"
    /\ UNCHANGED <<cfg, inp, xs, outs>>

NextForward ==
    \/ MakeInput
    \/ RunBlock1
    \/ RunBlock2
    \/ RunBlock3
    \/ RunBlock4
    \/ ToGlobalNext
    \/ Return

SpecForward == InitForward /\ [][NextForward]_vars

\* -------------------------------------------------------- SparseCNN claims

\* [channels, X, Y, Z] of a volume whose spatial shape is kept as (z, y, x).
ShapeCXYZ(v) ==
    <<v.channels, v.spatial_shape[3], v.spatial_shape[2], v.spatial_shape[1]>>

BlockOf(k) ==
    CASE k = 1 -> block1 [] k = 2 -> block2 [] k = 3 -> block3 [] k = 4 -> block4

LastLayer(k) == BlockOf(k)[Len(BlockOf(k))]

\* The volume after block k has, on every axis, the size the block's last
\* convolution gives the size before the block.
FollowsFromLastConv(k) ==
    \A a \in 1..3 :
        xs[k + 1].spatial_shape[a] =
            ((xs[k].spatial_shape[a] + 2 * LastLayer(k).padding[a]
                - LastLayer(k).kernel_size[a]) \div LastLayer(k).stride[a]) + 1

DocumentedShapes ==
    << <<32, 800, 640, 21>>, <<64, 400, 320, 11>>, <<64, 200, 160, 5>>, <<64, 200, 160, 2>> >>

NominalStrides == <<1, 2, 4, 8, 8>>

\* A volume of size n_k on an axis of input size n_0 is strided f: its sites
\* tile the axis in steps of f input sites.
StridedBy(n_k, n_0, f) == (n_k - 1) * f < n_0 /\ n_0 <= n_k * f

\* C4: when forward returns, x1..x4 are block1..block4 applied in turn from
\* the input sparse tensor x0; entry k of the returned list is to_global of
\* x_k with stride cfg.STRIDES[k] (k = 0..3); x4 is returned as block4 left
\* it; and x0..x4 are strided 1, 2, 4, 8, 8 in X and Y.
C4_ForwardVolumes ==
    pc = "done" =>
        /\ ret.ok
        /\ Len(xs) = 5
        /\ xs[1].indices = inp.coordinates
        /\ xs[1].features = inp.features
        /\ xs[1].spatial_shape = inp.grid_shape
        /\ \A k \in 1..4 : SparseSequential(BlockOf(k), xs[k]) = Ok(xs[k + 1])
        /\ Len(ret.val.x) = 4
        /\ \A k \in 1..4 :
             /\ DOMAIN ret.val.x[k] = {"xyz", "feature"}
             /\ CoordinatesOf(ret.val.x[k].xyz, xs[k], cfg.STRIDES[k])
             /\ DenseMinibatchOf(ret.val.x[k].feature, xs[k].features,
                                 [i \in DOMAIN xs[k].indices |-> xs[k].indices[i][1]],
                                 xs[k].batch_size)
        /\ ret.val.x4 = xs[5]
        /\ \A k \in 1..5 : \A a \in {2, 3} :
             StridedBy(xs[k].spatial_shape[a], inp.grid_shape[a], NominalStrides[k])

\* forward returned for two samples on the documented grid, the second
\* sample's voxel spreading to four sites of x1.
C4_Witness ==
    /\ pc = "done"
    /\ inp.batch_size = 2
    /\ inp.grid_shape = <<41, 1280, 1600>>
    /\ inp.coordinates = <<<<0, 40, 1279, 1599>>, <<1, 3, 16, 9>>>>
    /\ Len(cfg.STRIDES) = 5
    /\ Len(xs[2].indices) = 5
    /\ Len(ret.val.x[2].xyz[1]) = 4
    /\ ret.val.x[4].xyz[1][1] = <<15220, 25840, 1080>>
    /\ ret.val.x4.spatial_shape = <<2, 160, 200>>

====
